---- MODULE Spec2Model ----
(***************************************************************************)
(* MailPulse relay: the SMTP session state machine (relay/internal/smtp),  *)
(* the in-memory credential snapshot (relay/internal/auth), the in-memory  *)
(* rate limiter (relay/internal/security), the project and email tables    *)
(* (relay/internal/storage) and the admin handlers that mutate projects    *)
(* (relay/internal/api).                                                   *)
(*                                                                         *)
(* Time is counted in seconds.  A string whose letter case matters is a    *)
(* record [w |-> word, up |-> typed in upper case].                        *)
(***************************************************************************)
EXTENDS Integers, Sequences, FiniteSets, TLC

\* ---------------------------------------------------------------- bounds
MaxEmails == 2
MaxTicks == 3
MaxBurst == 11
MaxCommits == 3
MaxQuota == 3
MaxRcpt == 1
MaxAuth == 2
MaxAdminOps == 2
MaxForwarded == 2
MaxResends == 2
MaxEnvelope == 2
MaxGuesses == 6

\* ------------------------------------------------------ program constants
Minute == 60
Day == 86400
AuthAttemptLimit == 5
DefaultQuotaPerMinute == 10
DefaultQuotaDaily == 500
RequireAuth == TRUE
RequireTLS == FALSE

\* ------------------------------------------------------------ input sets
Sessions == {"s1", "s2"}
Projects == {"p1", "p2"}
Statuses == {"active", "inactive", "deleted"}
Delays == {1, Minute - 1, Day - Minute}
FromAddrs == {"a@x"}
ToAddrs == {"b@y"}
NoProject == [ID |-> "none"]
NoHash == [h |-> [w |-> "", up |-> FALSE], set |-> FALSE]
NoEmail == [ID |-> 0]
NoAdmit == [t |-> 0, recent |-> <<>>]
NoCall == [called |-> FALSE]
NoResend == [checked |-> {}, running |-> {}]
AuditActions == {"project_created", "project_updated", "project_deleted", "email_resend_requested"}
NoAudit == [action \in AuditActions |-> 0]
TLSConfig == FALSE

\* The smtp.Config main() hands to NewServer.
MainConfig == [requireAuth |-> RequireAuth, requireTLS |-> RequireTLS, tlsConfig |-> TLSConfig]

Str(word, upper) == [w |-> word, up |-> upper]
\* A ToLower that keeps the letters as they came.
ToLowerKeep(s) == s

ToLower(s) == [s EXCEPT !.up = FALSE]
EqualFold(a, b) == a.w = b.w

\* bcrypt: the hash of a password determines it, and nothing else matches.
GenerateFromPassword(pw) == [h |-> pw, set |-> TRUE]
CompareHashAndPassword(hash, pw) == hash = GenerateFromPassword(pw)

KeyOf(p) == Str(IF p = "p1" THEN "mp_live_1" ELSE "mp_live_2", FALSE)
PasswordOf(p) == Str(IF p = "p1" THEN "pw1" ELSE "pw2", FALSE)
Usernames == {Str("mp_live_1", FALSE), Str("mp_live_1", TRUE), Str("mp_live_x", FALSE)}
Passwords == {Str("pw1", FALSE), Str("pw1", TRUE), Str("pw2", FALSE)}
AdminTargets == {"p1"}
ClientIP(s) == "ip1"

Reply(c, t) == [code |-> c, text |-> t]
NoReply == Reply(0, "")
R220 == Reply(220, "MailPulse SMTP Server Ready (AUTH REQUIRED)")
R220TLS == Reply(220, "Ready to start TLS")
R221 == Reply(221, "Goodbye")
R235 == Reply(235, "Authentication successful")
R250 == Reply(250, "OK")
R250Hello == Reply(250, "Hello")
R250Accepted == Reply(250, "OK: Message accepted")
R354 == Reply(354, "End data with <CR><LF>.<CR><LF>")
R421Auth == Reply(421, "Too many authentication attempts")
R421Rate == Reply(421, "Rate limit exceeded")
R451 == Reply(451, "Temporary server error")
R500 == Reply(500, "Command not recognized")
R500Err == Reply(500, "Command error")
R501 == Reply(501, "Syntax error")
R502 == Reply(502, "TLS not available")
R503 == Reply(503, "Bad sequence of commands")
R503Auth == Reply(503, "Already authenticated")
R504 == Reply(504, "Authentication mechanism not supported")
R504Login == Reply(504, "LOGIN authentication not implemented yet")
R530 == Reply(530, "Authentication required")
R535 == Reply(535, "Authentication failed")
R535IP == Reply(535, "IP not authorized")
R550 == Reply(550, "Transaction failed")
R554 == Reply(554, "Transaction failed: Project not active")

VARIABLES
  config, now, budget, quotaLog,
  table, snapshot, admin,
  authAttempts, emailCounts,
  emails, forwarding, resend, auditLogs,
  state, authenticated, project, mailFrom, rcptTo, data, pc, admit, email, tls,
  lastCmd, lastReply, accepted, commits, got235, txStored, sinceMail, letThrough

dbVars == <<table, emails>>
limiterVars == <<authAttempts, emailCounts>>
sessionVars == <<state, authenticated, project, mailFrom, rcptTo, data, pc, admit, email,
                 tls>>
historyVars == <<lastCmd, lastReply, accepted, commits, got235, txStored>>
vars == <<config, letThrough, sinceMail, auditLogs, tls, now, budget, quotaLog, table, snapshot, admin, authAttempts, emailCounts,
          emails, forwarding, resend, state, authenticated, project, mailFrom, rcptTo,
          data, pc, admit, email, lastCmd, lastReply, accepted, commits, got235, txStored>>

\* ------------------------------------------------- storage: project table
\* SELECT ... FROM projects WHERE status != 'deleted' ORDER BY created_at DESC
CreatedDesc == <<"p2", "p1">>
NotDeleted(tbl, p) == tbl[p].status # "deleted"
ListAllProjects(tbl) == SelectSeq(CreatedDesc, LAMBDA p : NotDeleted(tbl, p))

\* SELECT ... FROM projects WHERE id = $1 (no status filter)
GetProject(tbl, id) == tbl[id]

\* UPDATE projects SET status = 'deleted' WHERE id = $1
DeleteProject(tbl, id) == [tbl EXCEPT ![id].status = "deleted"]

\* UPDATE projects SET ..., status = $10 WHERE id = $12
UpdateProject(tbl, id, row) == [tbl EXCEPT ![id] = row]

\* ---------------------------------------------- auth: credential snapshot
EmptyMap == [p \in {} |-> NoProject]

LoadProjectFromDB(m, id, apiKey, passwordHash, status) ==
  [p \in DOMAIN m \cup {id} |->
     IF p = id
       THEN [ID |-> id, APIKey |-> apiKey, APIKeyHash |-> passwordHash,
             Status |-> status, QuotaDaily |-> DefaultQuotaDaily,
             QuotaPerMinute |-> DefaultQuotaPerMinute, RequireIPAllow |-> FALSE]
       ELSE m[p]]

\* The loop body of ReloadProjects for one listed row.
ReloadOne(m, tbl, id) ==
  LoadProjectFromDB(m, id, tbl[id].apiKey, tbl[id].passwordHash, tbl[id].status)

RECURSIVE LoadAll(_, _, _)
LoadAll(m, tbl, ids) ==
  IF ids = <<>> THEN m ELSE LoadAll(ReloadOne(m, tbl, Head(ids)), tbl, Tail(ids))

AuthOk(prj) == [ok |-> TRUE, err |-> "", project |-> prj]
AuthErr(e) == [ok |-> FALSE, err |-> e, project |-> NoProject]

PasswordMatches(prj, password) ==
  prj.APIKeyHash = NoHash \/ CompareHashAndPassword(prj.APIKeyHash, ToLower(password))

StatusAllowsAuth(prj) == prj.Status = "active"

ValidateProject(prj, password) ==
  IF ~PasswordMatches(prj, password) THEN AuthErr("invalid password")
  ELSE IF ~StatusAllowsAuth(prj) THEN AuthErr("project is not active")
  ELSE AuthOk(prj)

\* The map is ranged over in no fixed order; the first key match decides.
ValidateAPIKey(m, username, password) ==
  LET matches == {p \in DOMAIN m : EqualFold(m[p].APIKey, username)}
  IN IF matches = {} THEN {AuthErr("invalid API credentials")}
     ELSE {ValidateProject(m[p], password) : p \in matches}

\* Attempts are keyed by remote address; a project is counted only under keys
\* that start with its id, and no remote address does.
CheckRateLimit(m, projectID) ==
  LET attempts == 0
  IN projectID \in DOMAIN m /\ ~(attempts >= m[projectID].QuotaPerMinute)

IsIPAllowed(m, projectID, ip) ==
  projectID \in DOMAIN m /\ ~m[projectID].RequireIPAllow

\* --------------------------------------------------- security: rate limiter
After(t, cutoff) == t > cutoff
Recent(times, cutoff) == SelectSeq(times, LAMBDA t : After(t, cutoff))

CheckAuthAttempt(attempts, t) ==
  LET recentAttempts == Recent(attempts, t - Minute)
  IN IF Len(recentAttempts) >= AuthAttemptLimit
       THEN [ok |-> FALSE, attempts |-> recentAttempts]
       ELSE [ok |-> TRUE, attempts |-> Append(recentAttempts, t)]

\* The first half of CheckEmailQuota: the entries kept (newer than a day).
RecentEmails(counts, t) == Recent(counts, t - Day)

\* A comparison that lets one more through.
OverLimitLoose(count, limit) == count > limit

OverLimit(count, limit) == count >= limit

\* The second half: the verdict on the kept entries.
QuotaVerdict(recentEmails, t, quotaPerMinute, quotaDaily) ==
  LET emailsToday == Len(recentEmails)
      emailsThisMinute == Len(Recent(recentEmails, t - Minute))
  IN IF OverLimit(emailsThisMinute, quotaPerMinute) THEN "minute"
     ELSE IF OverLimit(emailsToday, quotaDaily) THEN "daily"
     ELSE "ok"

CheckEmailQuota(counts, t, quotaPerMinute, quotaDaily) ==
  QuotaVerdict(RecentEmails(counts, t), t, quotaPerMinute, quotaDaily)

RecordEmailSent(counts, t) == Append(counts, t)

\* ------------------------------------------------------------------ Init
ConfiguredQuotaPerMinute(p) == IF p = "p1" THEN 2 ELSE DefaultQuotaPerMinute

\* A project row as createProjectHandler inserts it.
NewProjectRow(p) ==
  [status |-> "active", apiKey |-> KeyOf(p),
   passwordHash |-> GenerateFromPassword(ToLower(PasswordOf(p))),
   quotaPerMinute |-> ConfiguredQuotaPerMinute(p), quotaDaily |-> DefaultQuotaDaily]

InitSessions ==
  /\ state = [s \in Sessions |-> "Greeting"]
  /\ authenticated = [s \in Sessions |-> FALSE]
  /\ project = [s \in Sessions |-> NoProject]
  /\ mailFrom = [s \in Sessions |-> ""]
  /\ rcptTo = [s \in Sessions |-> <<>>]
  /\ data = [s \in Sessions |-> ""]
  /\ pc = [s \in Sessions |-> "cmd"]
  /\ tls = [s \in Sessions |-> FALSE]
  /\ admit = [s \in Sessions |-> NoAdmit]
  /\ email = [s \in Sessions |-> NoEmail]
  /\ lastCmd = [s \in Sessions |-> "connect"]
  /\ lastReply = [s \in Sessions |-> R220]
  /\ accepted = [s \in Sessions |-> 0]
  /\ commits = [s \in Sessions |-> 0]
  /\ got235 = [s \in Sessions |-> FALSE]
  /\ txStored = [s \in Sessions |-> FALSE]
  /\ sinceMail = [s \in Sessions |-> <<>>]
  /\ letThrough = [ip \in {ClientIP(s) : s \in Sessions} |-> <<>>]

\* main(): the limiter starts empty and the snapshot is loaded from the table.
Init ==
  /\ config = MainConfig
  /\ now = 0
  /\ quotaLog = NoCall
  /\ budget = [data |-> MaxEmails, auth |-> MaxAuth, admin |-> MaxAdminOps, ticks |-> 0, resend |-> 0,
               rcpt |-> MaxRcpt]
  /\ table = [p \in Projects |-> NewProjectRow(p)]
  /\ snapshot = LoadAll(EmptyMap, table, ListAllProjects(table))
  /\ admin = [pc |-> "idle", list |-> <<>>]
  /\ authAttempts = [ip \in {ClientIP(s) : s \in Sessions} |-> <<>>]
  /\ emailCounts = [p \in Projects |-> <<>>]
  /\ emails = <<>>
  /\ forwarding = {}
  /\ resend = NoResend
  /\ auditLogs = NoAudit
  /\ InitSessions

\* ------------------------------------------------------- session: replies
\* sendResponse at the end of a handler: a failed write ends the session.
Respond(s, cmd, reply, ioOk) ==
  /\ lastCmd' = [lastCmd EXCEPT ![s] = cmd]
  /\ lastReply' = [lastReply EXCEPT ![s] = reply]
  /\ pc' = [pc EXCEPT ![s] = IF ioOk THEN "cmd" ELSE "closed"]

Reading(s) == pc[s] = "cmd"

\* ------------------------------------------------------ session: commands
handleHelo(s, hasArg, ioOk) ==
  /\ Reading(s)
  /\ IF ~hasArg
       THEN /\ Respond(s, "HELO", R501, ioOk)
            /\ UNCHANGED state
       ELSE /\ state' = [state EXCEPT ![s] = "Helo"]
            /\ Respond(s, "HELO", R250Hello, ioOk)
  /\ UNCHANGED <<config, letThrough, sinceMail, auditLogs, tls, quotaLog, resend, now, budget, table, snapshot, admin, authAttempts, emailCounts, emails,
                 forwarding, authenticated, project, mailFrom, rcptTo, data, admit,
                 email, accepted, commits, got235, txStored>>

\* A handleAuth without its guard.
AlreadyAuthenticatedNever(s) == FALSE

AlreadyAuthenticated(s) == config.requireAuth /\ authenticated[s]

\* handleAuth without PLAIN: no mechanism, LOGIN, or an unsupported one.
handleAuthOther(s, mechanism, ioOk) ==
  /\ Reading(s)
  /\ mechanism \in {"", "LOGIN", "CRAM-MD5"}
  /\ Respond(s, "AUTH",
             IF AlreadyAuthenticated(s) THEN R503Auth
             ELSE IF mechanism = "" THEN R501
             ELSE IF mechanism = "LOGIN" THEN R504Login
             ELSE R504, ioOk)
  /\ UNCHANGED <<config, letThrough, sinceMail, auditLogs, tls, quotaLog, resend, now, budget, table, snapshot, admin, authAttempts, emailCounts, emails,
                 forwarding, state, authenticated, project, mailFrom, rcptTo, data,
                 admit, email, accepted, commits, got235, txStored>>

\* The payload of AUTH PLAIN: absent, not base64, not three NUL-separated
\* fields, or well formed with a username and a password.
Payloads ==
  {[form |-> f, username |-> Str("", FALSE), password |-> Str("", FALSE)] :
     f \in {"missing", "notbase64", "fields"}}
  \cup {[form |-> "ok", username |-> u, password |-> pw] : u \in Usernames, pw \in Passwords}

\* A handleAuthPlain that tells the client when the project is not active.
AuthPlainResultTelling(s, payload, validated) ==
  IF payload.form # "ok" THEN [reply |-> R535, project |-> NoProject]
  ELSE IF ~validated.ok
    THEN [reply |-> IF validated.err = "project is not active" THEN R554 ELSE R535,
          project |-> NoProject]
  ELSE IF validated.project.RequireIPAllow
          /\ ~IsIPAllowed(snapshot, validated.project.ID, ClientIP(s))
    THEN [reply |-> R535IP, project |-> NoProject]
  ELSE IF ~CheckRateLimit(snapshot, validated.project.ID)
    THEN [reply |-> R421Rate, project |-> NoProject]
  ELSE [reply |-> R235, project |-> validated.project]

\* handleAuthPlain after the per-IP check passed: the reply and the project bound.
AuthPlainResult(s, payload, validated) ==
  IF payload.form # "ok" THEN [reply |-> R535, project |-> NoProject]
  ELSE IF ~validated.ok THEN [reply |-> R535, project |-> NoProject]
  ELSE IF validated.project.RequireIPAllow
          /\ ~IsIPAllowed(snapshot, validated.project.ID, ClientIP(s))
    THEN [reply |-> R535IP, project |-> NoProject]
  ELSE IF ~CheckRateLimit(snapshot, validated.project.ID)
    THEN [reply |-> R421Rate, project |-> NoProject]
  ELSE [reply |-> R235, project |-> validated.project]

handleAuthPlain(s, payload, ioOk) ==
  /\ Reading(s)
  /\ IF AlreadyAuthenticated(s)
       THEN /\ Respond(s, "AUTH", R503Auth, ioOk)
            /\ UNCHANGED <<budget, authAttempts, letThrough, state, authenticated, project, got235>>
       ELSE LET checked == CheckAuthAttempt(authAttempts[ClientIP(s)], now)
            IN /\ budget.auth > 0
               /\ budget' = [budget EXCEPT !.auth = @ - 1]
               /\ authAttempts' = [authAttempts EXCEPT ![ClientIP(s)] = checked.attempts]
               /\ letThrough' = [letThrough EXCEPT ![ClientIP(s)] =
                                   IF checked.ok THEN Append(@, now) ELSE @]
               /\ IF ~checked.ok
                    THEN /\ Respond(s, "AUTH", R421Auth, ioOk)
                         /\ UNCHANGED <<state, authenticated, project, got235>>
                    ELSE \E validated \in ValidateAPIKey(snapshot, payload.username,
                                                         payload.password) :
                           LET res == AuthPlainResult(s, payload, validated)
                           IN /\ Respond(s, "AUTH", res.reply, ioOk)
                              /\ IF res.reply = R235
                                   THEN /\ authenticated' = [authenticated EXCEPT ![s] = TRUE]
                                        /\ project' = [project EXCEPT ![s] = res.project]
                                        /\ state' = [state EXCEPT ![s] = "Authenticated"]
                                        /\ got235' = [got235 EXCEPT ![s] = @ \/ ioOk]
                                   ELSE UNCHANGED <<state, authenticated, project, got235>>
  /\ UNCHANGED <<config, sinceMail, auditLogs, tls, quotaLog, resend, now, table, snapshot, admin, emailCounts, emails, forwarding,
                 mailFrom, rcptTo, data, admit, email, accepted, commits, txStored>>

handleStartTLS(s, handshakeOk, ioOk) ==
  /\ Reading(s)
  /\ IF ~config.tlsConfig
       THEN /\ Respond(s, "STARTTLS", R502, ioOk)
            /\ UNCHANGED tls
       ELSE /\ lastCmd' = [lastCmd EXCEPT ![s] = "STARTTLS"]
            /\ lastReply' = [lastReply EXCEPT ![s] = IF ioOk /\ ~handshakeOk THEN R500Err
                                                     ELSE R220TLS]
            /\ pc' = [pc EXCEPT ![s] = IF ioOk /\ handshakeOk THEN "cmd" ELSE "closed"]
            /\ tls' = [tls EXCEPT ![s] = @ \/ (ioOk /\ handshakeOk)]
  /\ UNCHANGED <<config, letThrough, sinceMail, auditLogs, quotaLog, resend, now, budget, table, snapshot, admin, authAttempts,
                 emailCounts, emails, forwarding, state, authenticated, project, mailFrom,
                 rcptTo, data, admit, email, accepted, commits, got235, txStored>>

\* A handleMail without its authentication gate.
MailNeedsAuthNever(s) == FALSE

MailNeedsAuth(s) == config.requireAuth /\ ~authenticated[s]

handleMail(s, syntaxOk, from, ioOk) ==
  /\ Reading(s)
  /\ IF MailNeedsAuth(s)
       THEN /\ Respond(s, "MAIL", R530, ioOk)
            /\ UNCHANGED <<mailFrom, state, sinceMail>>
       ELSE IF ~syntaxOk
         THEN /\ Respond(s, "MAIL", R501, ioOk)
              /\ UNCHANGED <<mailFrom, state, sinceMail>>
         ELSE /\ mailFrom' = [mailFrom EXCEPT ![s] = from]
              /\ state' = [state EXCEPT ![s] = "Mail"]
              /\ sinceMail' = [sinceMail EXCEPT ![s] = <<>>]
              /\ Respond(s, "MAIL", R250, ioOk)
  /\ UNCHANGED <<config, letThrough, auditLogs, tls, quotaLog, resend, now, budget, table, snapshot, admin, authAttempts, emailCounts, emails,
                 forwarding, authenticated, project, rcptTo, data, admit, email,
                 accepted, commits, got235, txStored>>

\* A handleRcpt that accepts recipients in any state.
RcptInSequenceAlways(s) == TRUE

RcptInSequence(s) == state[s] \in {"Mail", "Rcpt"}

handleRcpt(s, syntaxOk, to, ioOk) ==
  /\ Reading(s)
  /\ IF ~RcptInSequence(s)
       THEN /\ Respond(s, "RCPT", R503, ioOk)
            /\ UNCHANGED <<rcptTo, state, sinceMail>>
       ELSE IF ~syntaxOk
         THEN /\ Respond(s, "RCPT", R501, ioOk)
              /\ UNCHANGED <<rcptTo, state, sinceMail>>
         ELSE /\ Len(rcptTo[s]) < budget.rcpt
              /\ rcptTo' = [rcptTo EXCEPT ![s] = Append(@, to)]
              /\ state' = [state EXCEPT ![s] = "Rcpt"]
              /\ sinceMail' = [sinceMail EXCEPT ![s] = Append(@, to)]
              /\ Respond(s, "RCPT", R250, ioOk)
  /\ UNCHANGED <<config, letThrough, auditLogs, tls, quotaLog, resend, now, budget, table, snapshot, admin, authAttempts, emailCounts, emails,
                 forwarding, authenticated, project, mailFrom, data, admit, email,
                 accepted, commits, got235, txStored>>

\* -------------------------------------------------------- session: DATA
DataInSequence(s) == state[s] = "Rcpt"

\* A handleData without the status re-check.
DataGateNoRecheck(s, getOk) ==
  IF ~DataInSequence(s) THEN R503
  ELSE IF project[s] = NoProject THEN NoReply
  ELSE IF ~getOk THEN R451
  ELSE R354

\* handleData up to the 354 reply.  With no project bound, s.project.ID panics.
DataGate(s, getOk) ==
  IF ~DataInSequence(s) THEN R503
  ELSE IF project[s] = NoProject THEN NoReply
  ELSE IF ~getOk THEN R451
  ELSE IF GetProject(table, project[s].ID).status # "active" THEN R554
  ELSE R354

handleData(s, getOk, ioOk) ==
  /\ Reading(s)
  /\ LET gate == DataGate(s, getOk)
     IN /\ lastCmd' = [lastCmd EXCEPT ![s] = "DATA"]
        /\ lastReply' = [lastReply EXCEPT ![s] = gate]
        /\ gate = R354 => budget.data > 0
        /\ budget' = IF gate = R354 THEN [budget EXCEPT !.data = @ - 1] ELSE budget
        /\ pc' = [pc EXCEPT ![s] = IF gate = NoReply THEN "panic"
                                   ELSE IF ~ioOk THEN "closed"
                                   ELSE IF gate = R354 THEN "data"
                                   ELSE "cmd"]
        /\ txStored' = [txStored EXCEPT ![s] = IF gate = R354 THEN FALSE ELSE @]
  /\ UNCHANGED <<config, letThrough, sinceMail, auditLogs, tls, quotaLog, resend, now, table, snapshot, admin, authAttempts, emailCounts, emails,
                 forwarding, state, authenticated, project, mailFrom, rcptTo, data,
                 admit, email, accepted, commits, got235>>

\* The read loop of handleData saw the end-of-data marker.
EndOfData(s) ==
  /\ pc[s] = "data"
  /\ data' = [data EXCEPT ![s] = "body"]
  /\ pc' = [pc EXCEPT ![s] = "admit"]
  /\ UNCHANGED <<config, letThrough, sinceMail, auditLogs, tls, quotaLog, resend, now, budget, table, snapshot, admin, authAttempts, emailCounts, emails,
                 forwarding, state, authenticated, project, mailFrom, rcptTo, admit,
                 email, lastCmd, lastReply, accepted, commits, got235, txStored>>

\* processEmail failed: handleData answers 550.
Reject550(s, ioOk) ==
  /\ lastReply' = [lastReply EXCEPT ![s] = R550]
  /\ pc' = [pc EXCEPT ![s] = IF ioOk THEN "cmd" ELSE "closed"]

\* processEmail: the status re-check, then CheckEmailQuota reads the project's
\* entries at its own time.Now().
ProjectStillActive(s, getOk) ==
  getOk /\ GetProject(table, project[s].ID).status = "active"

processEmailCheck(s, getOk, ioOk) ==
  /\ pc[s] = "admit"
  /\ IF ~ProjectStillActive(s, getOk)
       THEN /\ Reject550(s, ioOk)
            /\ UNCHANGED admit
       ELSE /\ admit' = [admit EXCEPT ![s] =
                  [t |-> now, recent |-> RecentEmails(emailCounts[project[s].ID], now)]]
            /\ pc' = [pc EXCEPT ![s] = "admitted"]
            /\ UNCHANGED lastReply
  /\ UNCHANGED <<config, letThrough, sinceMail, auditLogs, tls, quotaLog, resend, now, budget, table, snapshot, admin, authAttempts, emailCounts, emails,
                 forwarding, state, authenticated, project, mailFrom, rcptTo, data,
                 email, lastCmd, accepted, commits, got235, txStored>>

\* The limits CheckEmailQuota is called with: those of the session's project.
SessionQuotaPerMinute(s) == project[s].QuotaPerMinute
SessionQuotaDaily(s) == project[s].QuotaDaily

\* CheckEmailQuota writes the kept entries back, then decides.
processEmailAdmit(s, ioOk) ==
  /\ pc[s] = "admitted"
  /\ emailCounts' = [emailCounts EXCEPT ![project[s].ID] = admit[s].recent]
  /\ admit' = [admit EXCEPT ![s] = NoAdmit]
  /\ IF QuotaVerdict(admit[s].recent, admit[s].t, SessionQuotaPerMinute(s),
                     SessionQuotaDaily(s)) # "ok"
       THEN /\ Reject550(s, ioOk)
            /\ UNCHANGED email
       ELSE /\ email' = [email EXCEPT ![s] =
                  [ID |-> 0, ProjectID |-> project[s].ID, From |-> mailFrom[s],
                   To |-> rcptTo[s], Status |-> "processed", Attempts |-> 1,
                   Error |-> ""]]
            /\ pc' = [pc EXCEPT ![s] = "store"]
            /\ UNCHANGED lastReply
  /\ UNCHANGED <<config, letThrough, sinceMail, auditLogs, tls, quotaLog, resend, now, budget, table, snapshot, admin, authAttempts, emails, forwarding,
                 state, authenticated, project, mailFrom, rcptTo, data, lastCmd,
                 accepted, commits, got235, txStored>>

\* joinStrings: the elements with the separator between them, as one string.
RECURSIVE joinStrings(_, _)
joinStrings(strs, sep) ==
  IF strs = <<>> THEN ""
  ELSE IF Len(strs) = 1 THEN strs[1]
  ELSE joinStrings(SubSeq(strs, 1, Len(strs) - 1), sep) \o sep \o strs[Len(strs)]

\* fmt.Sprintf("{%s}", joinStrings(email.To, ",")): the text of the to_emails
\* column, the same when it is written and when it is scanned into a string.
ArrayText(to) == <<"{", joinStrings(to, ","), "}">>

\* parseArrayString: the braces are removed and what is between them is
\* returned as the only element.
parseArrayString(text) ==
  IF text = <<>> \/ text = <<"{", "", "}">> THEN <<>> ELSE <<text[2]>>

\* SELECT ... FROM emails WHERE id = $1, to_emails parsed back into a list.
GetEmail(rows, id) == [rows[id] EXCEPT !.To = parseArrayString(ArrayText(@))]

\* INSERT INTO emails: the row gets the next id of the table.
StoreEmail(rows, e) == Append(rows, [e EXCEPT !.ID = Len(rows) + 1])

\* A processEmail that ignores the error of StoreEmail.
AfterStoreAlways(storeOk) == "commit"

AfterStore(storeOk) == IF storeOk THEN "commit" ELSE "cmd"

processEmailStore(s, storeOk, ioOk) ==
  /\ pc[s] = "store"
  /\ IF storeOk
       THEN /\ emails' = StoreEmail(emails, email[s])
            /\ email' = [email EXCEPT ![s].ID = Len(emails) + 1]
            /\ txStored' = [txStored EXCEPT ![s] = TRUE]
       ELSE UNCHANGED <<emails, email, txStored>>
  /\ IF AfterStore(storeOk) = "commit"
       THEN /\ pc' = [pc EXCEPT ![s] = "commit"]
            /\ UNCHANGED lastReply
       ELSE Reject550(s, ioOk)
  /\ UNCHANGED <<config, letThrough, sinceMail, auditLogs, tls, quotaLog, resend, now, budget, table, snapshot, admin, authAttempts, emailCounts,
                 forwarding, state, authenticated, project, mailFrom, rcptTo, data,
                 admit, lastCmd, accepted, commits, got235>>

\* RecordEmailSent, the forwarding goroutine is started, then the 250 reply.
processEmailCommit(s, ioOk) ==
  /\ pc[s] = "commit"
  /\ emailCounts' = [emailCounts EXCEPT ![project[s].ID] = RecordEmailSent(@, now)]
  /\ commits' = [commits EXCEPT ![s] = @ + 1]
  /\ forwarding' = forwarding \cup {email[s].ID}
  /\ email' = [email EXCEPT ![s] = NoEmail]
  /\ lastReply' = [lastReply EXCEPT ![s] = R250Accepted]
  /\ accepted' = [accepted EXCEPT ![s] = IF ioOk THEN @ + 1 ELSE @]
  /\ pc' = [pc EXCEPT ![s] = IF ioOk THEN "cmd" ELSE "closed"]
  /\ UNCHANGED <<config, letThrough, sinceMail, auditLogs, tls, quotaLog, resend, now, budget, table, snapshot, admin, authAttempts, emails, state,
                 authenticated, project, mailFrom, rcptTo, data, admit, lastCmd,
                 got235, txStored>>

\* ------------------------------------------- session: QUIT, RSET, the rest
\* handleQuit returns an error, so handle() writes "500 Command error" next.
handleQuit(s) ==
  /\ Reading(s)
  /\ state' = [state EXCEPT ![s] = "Quit"]
  /\ lastCmd' = [lastCmd EXCEPT ![s] = "QUIT"]
  /\ lastReply' = [lastReply EXCEPT ![s] = R500Err]
  /\ pc' = [pc EXCEPT ![s] = "closed"]
  /\ UNCHANGED <<config, letThrough, sinceMail, auditLogs, tls, quotaLog, resend, now, budget, table, snapshot, admin, authAttempts, emailCounts, emails,
                 forwarding, authenticated, project, mailFrom, rcptTo, data, admit,
                 email, accepted, commits, got235, txStored>>

\* A handleReset that also drops the authentication.
handleResetForgets(s, ioOk) ==
  /\ Reading(s)
  /\ mailFrom' = [mailFrom EXCEPT ![s] = ""]
  /\ rcptTo' = [rcptTo EXCEPT ![s] = <<>>]
  /\ data' = [data EXCEPT ![s] = ""]
  /\ state' = [state EXCEPT ![s] = "Helo"]
  /\ authenticated' = [authenticated EXCEPT ![s] = FALSE]
  /\ project' = [project EXCEPT ![s] = NoProject]
  /\ Respond(s, "RSET", R250, ioOk)
  /\ UNCHANGED <<config, letThrough, sinceMail, auditLogs, tls, quotaLog, resend, now, budget, table, snapshot, admin, authAttempts, emailCounts, emails,
                 forwarding, admit, email, accepted, commits,
                 got235, txStored>>

handleReset(s, ioOk) ==
  /\ Reading(s)
  /\ mailFrom' = [mailFrom EXCEPT ![s] = ""]
  /\ rcptTo' = [rcptTo EXCEPT ![s] = <<>>]
  /\ data' = [data EXCEPT ![s] = ""]
  /\ state' = [state EXCEPT ![s] = "Helo"]
  /\ Respond(s, "RSET", R250, ioOk)
  /\ UNCHANGED <<config, letThrough, sinceMail, auditLogs, tls, quotaLog, resend, now, budget, table, snapshot, admin, authAttempts, emailCounts, emails,
                 forwarding, authenticated, project, admit, email, accepted, commits,
                 got235, txStored>>

\* NOOP, and any other or empty command line.
handleOther(s, verb, ioOk) ==
  /\ Reading(s)
  /\ verb \in {"NOOP", "VRFY"}
  /\ Respond(s, verb, IF verb = "NOOP" THEN R250 ELSE R500, ioOk)
  /\ UNCHANGED <<config, letThrough, sinceMail, auditLogs, tls, quotaLog, resend, now, budget, table, snapshot, admin, authAttempts, emailCounts, emails,
                 forwarding, state, authenticated, project, mailFrom, rcptTo, data,
                 admit, email, accepted, commits, got235, txStored>>

\* A read loop that, when the read fails, processes the bytes it has.
ConnErrorProcesses(s) ==
  /\ pc[s] \in {"cmd", "data"}
  /\ pc' = [pc EXCEPT ![s] = IF pc[s] = "data" THEN "admit" ELSE "closed"]
  /\ data' = [data EXCEPT ![s] = IF pc[s] = "data" THEN "partial" ELSE @]
  /\ UNCHANGED <<config, letThrough, sinceMail, auditLogs, tls, quotaLog, resend, now, budget, table, snapshot, admin, authAttempts, emailCounts, emails,
                 forwarding, state, authenticated, project, mailFrom, rcptTo,
                 admit, email, lastCmd, lastReply, accepted, commits, got235, txStored>>

\* conn.Read fails (the client went away).  In the command loop handle() just
\* returns; in the read loop of handleData the error is returned to handle(),
\* which writes "500 Command error" and returns.  s.data is not assigned.
ConnError(s) ==
  /\ pc[s] \in {"cmd", "data"}
  /\ pc' = [pc EXCEPT ![s] = "closed"]
  /\ lastReply' = [lastReply EXCEPT ![s] = IF pc[s] = "data" THEN R500Err ELSE @]
  /\ UNCHANGED <<config, letThrough, sinceMail, auditLogs, tls, quotaLog, resend, now, budget, table, snapshot, admin, authAttempts, emailCounts, emails,
                 forwarding, state, authenticated, project, mailFrom, rcptTo, data,
                 admit, email, lastCmd, accepted, commits, got235, txStored>>

\* ------------------------------------------------------------------- audit
\* recordAuditLog: one more entry with this action; how many there are of each
\* action is what is kept of the log.
recordAuditLog(log, action) == [log EXCEPT ![action] = @ + 1]

\* --------------------------------------------------------------- forwarder
\* ForwardEmail: the project row is re-read; a project that is not active is
\* refused before anything is sent upstream.
ForwardEmail(tbl, e, getOk, upstreamOk) ==
  getOk /\ GetProject(tbl, e.ProjectID).status = "active" /\ upstreamOk

\* An UpdateEmailStatus that leaves the attempts counter alone.
UpdateEmailStatusNoCount(rows, id, status, errorMsg) ==
  [i \in DOMAIN rows |->
     IF rows[i].ID = id
       THEN [rows[i] EXCEPT !.Status = status, !.Error = errorMsg]
       ELSE rows[i]]

\* UPDATE emails SET status = $1, error_msg = $2, attempts = attempts + 1 WHERE id = $3
UpdateEmailStatus(rows, id, status, errorMsg) ==
  [i \in DOMAIN rows |->
     IF rows[i].ID = id
       THEN [rows[i] EXCEPT !.Status = status, !.Error = errorMsg, !.Attempts = @ + 1]
       ELSE rows[i]]

\* A goroutine that reports every message as delivered.
ForwardOutcomeDelivered(rows, id, forwarded) ==
  UpdateEmailStatus(rows, id, "delivered", "")

\* What the goroutine writes after ForwardEmail returned.
ForwardOutcome(rows, id, forwarded) ==
  IF forwarded THEN UpdateEmailStatus(rows, id, "delivered", "")
  ELSE UpdateEmailStatus(rows, id, "failed", "SMTP forwarding failed")

\* The goroutine processEmail starts for an accepted message; the error of
\* UpdateEmailStatus is dropped.
Forward(id, getOk, upstreamOk, updateOk) ==
  /\ id \in forwarding
  /\ emails' = IF updateOk
                 THEN ForwardOutcome(emails, id,
                                     ForwardEmail(table, emails[id], getOk, upstreamOk))
                 ELSE emails
  /\ forwarding' = forwarding \ {id}
  /\ UNCHANGED <<config, letThrough, sinceMail, auditLogs, quotaLog, resend, now, budget, table, snapshot, admin, authAttempts,
                 emailCounts, sessionVars, historyVars>>

\* ------------------------------------------------------------------ resend
\* resendEmailHandler up to its status check: GetEmail, then the refusal of a
\* delivered message.
ResendAllowed(rows, id, getOk) ==
  getOk /\ id \in DOMAIN rows /\ rows[id].Status # "delivered"

resendEmailHandler(id, getOk) ==
  /\ budget.resend > 0
  /\ budget' = [budget EXCEPT !.resend = @ - 1]
  /\ resend' = IF ResendAllowed(emails, id, getOk)
                 THEN [resend EXCEPT !.checked = @ \cup {id}]
                 ELSE resend
  /\ UNCHANGED <<config, letThrough, sinceMail, auditLogs, quotaLog, now, table, snapshot, admin, authAttempts, emailCounts,
                 emails, forwarding, sessionVars, historyVars>>

\* resendEmailHandler from UpdateEmailStatus(queued) on: the goroutine is
\* started when the update succeeded.
resendQueue(id, updateOk) ==
  /\ id \in resend.checked
  /\ emails' = IF updateOk THEN UpdateEmailStatus(emails, id, "queued", "") ELSE emails
  /\ resend' = [checked |-> resend.checked \ {id},
                running |-> IF updateOk THEN resend.running \cup {id} ELSE resend.running]
  /\ auditLogs' = IF updateOk THEN recordAuditLog(auditLogs, "email_resend_requested") ELSE auditLogs
  /\ UNCHANGED <<config, letThrough, sinceMail, quotaLog, now, budget, table, snapshot, admin, authAttempts,
                 emailCounts, forwarding, sessionVars, historyVars>>

\* The goroutine of resendEmailHandler.
resendForward(id, getOk, upstreamOk, updateOk) ==
  /\ id \in resend.running
  /\ emails' = IF updateOk
                 THEN ForwardOutcome(emails, id,
                                     ForwardEmail(table, emails[id], getOk, upstreamOk))
                 ELSE emails
  /\ resend' = [resend EXCEPT !.running = @ \ {id}]
  /\ UNCHANGED <<config, letThrough, sinceMail, auditLogs, quotaLog, now, budget, table, snapshot, admin, authAttempts,
                 emailCounts, forwarding, sessionVars, historyVars>>

\* ------------------------------------------------------------------- time
Tick(d) ==
  /\ budget.ticks > 0
  /\ budget' = [budget EXCEPT !.ticks = @ - 1]
  /\ now' = now + d
  /\ UNCHANGED <<config, letThrough, sinceMail, auditLogs, quotaLog, resend, table, snapshot, admin, authAttempts, emailCounts, emails,
                 forwarding, sessionVars, historyVars>>

\* ----------------------------------------------------------- admin surface
\* The rows ListAllProjects returned to ReloadProjects, through StorageAdapter.
ListedRows(tbl) ==
  LET ids == ListAllProjects(tbl)
  IN [i \in DOMAIN ids |->
        [ID |-> ids[i], APIKey |-> tbl[ids[i]].apiKey,
         PasswordHash |-> tbl[ids[i]].passwordHash, Status |-> tbl[ids[i]].status]]

\* updateProjectHandler with a status: the row is updated, then ReloadProjects
\* lists the projects.
updateProjectHandler(p, status) ==
  /\ admin.pc = "idle"
  /\ status \in Statuses
  /\ table' = UpdateProject(table, p, [GetProject(table, p) EXCEPT !.status = status])
  /\ admin' = [pc |-> "clear", list |-> ListedRows(table')]
  /\ budget.admin > 0
  /\ budget' = [budget EXCEPT !.admin = @ - 1]
  /\ auditLogs' = recordAuditLog(auditLogs, "project_updated")
  /\ UNCHANGED <<config, letThrough, sinceMail, quotaLog, resend, now, snapshot, authAttempts, emailCounts, emails, forwarding,
                 sessionVars, historyVars>>

\* ReloadProjects: m.projects = make(map[string]*Project)
ReloadClear ==
  /\ admin.pc = "clear"
  /\ snapshot' = EmptyMap
  /\ admin' = [admin EXCEPT !.pc = IF admin.list = <<>> THEN "idle" ELSE "load"]
  /\ UNCHANGED <<config, letThrough, sinceMail, auditLogs, quotaLog, resend, now, budget, table, authAttempts, emailCounts, emails, forwarding,
                 sessionVars, historyVars>>

\* ReloadProjects: one round of the loop over the listed projects.
ReloadLoad ==
  /\ admin.pc = "load"
  /\ LET row == Head(admin.list)
     IN snapshot' = LoadProjectFromDB(snapshot, row.ID, row.APIKey, row.PasswordHash,
                                      row.Status)
  /\ admin' = [pc |-> IF Len(admin.list) = 1 THEN "idle" ELSE "load",
               list |-> Tail(admin.list)]
  /\ UNCHANGED <<config, letThrough, sinceMail, auditLogs, quotaLog, resend, now, budget, table, authAttempts, emailCounts, emails, forwarding,
                 sessionVars, historyVars>>

\* deleteProjectHandler: the row is tombstoned; the snapshot is left as it is.
deleteProjectHandler(p) ==
  /\ admin.pc = "idle"
  /\ table' = DeleteProject(table, p)
  /\ budget.admin > 0
  /\ budget' = [budget EXCEPT !.admin = @ - 1]
  /\ auditLogs' = recordAuditLog(auditLogs, "project_deleted")
  /\ UNCHANGED <<config, letThrough, sinceMail, quotaLog, resend, now, snapshot, admin, authAttempts, emailCounts, emails,
                 forwarding, sessionVars, historyVars>>

\* ------------------------------------------------------------------- Next
SessionStep(s) ==
  \/ \E hasArg \in BOOLEAN, ioOk \in BOOLEAN : handleHelo(s, hasArg, ioOk)
  \/ \E m \in {"", "LOGIN", "CRAM-MD5"}, ioOk \in BOOLEAN : handleAuthOther(s, m, ioOk)
  \/ \E payload \in Payloads, ioOk \in BOOLEAN : handleAuthPlain(s, payload, ioOk)
  \/ \E hs \in BOOLEAN, ioOk \in BOOLEAN : handleStartTLS(s, hs, ioOk)
  \/ \E ok \in BOOLEAN, from \in FromAddrs, ioOk \in BOOLEAN : handleMail(s, ok, from, ioOk)
  \/ \E ok \in BOOLEAN, to \in ToAddrs, ioOk \in BOOLEAN : handleRcpt(s, ok, to, ioOk)
  \/ \E getOk \in BOOLEAN, ioOk \in BOOLEAN : handleData(s, getOk, ioOk)
  \/ EndOfData(s)
  \/ \E getOk \in BOOLEAN, ioOk \in BOOLEAN : processEmailCheck(s, getOk, ioOk)
  \/ \E ioOk \in BOOLEAN : processEmailAdmit(s, ioOk)
  \/ \E storeOk \in BOOLEAN, ioOk \in BOOLEAN : processEmailStore(s, storeOk, ioOk)
  \/ \E ioOk \in BOOLEAN : processEmailCommit(s, ioOk)
  \/ handleQuit(s)
  \/ \E ioOk \in BOOLEAN : handleReset(s, ioOk)
  \/ \E verb \in {"NOOP", "VRFY"}, ioOk \in BOOLEAN : handleOther(s, verb, ioOk)
  \/ ConnError(s)

AdminStep ==
  \/ \E p \in AdminTargets, st \in Statuses : updateProjectHandler(p, st)
  \/ ReloadClear
  \/ ReloadLoad
  \/ \E p \in AdminTargets : deleteProjectHandler(p)

ForwardStep ==
  \E id \in forwarding, getOk \in BOOLEAN, up \in BOOLEAN, updateOk \in BOOLEAN :
    Forward(id, getOk, up, updateOk)

TickStep == \E d \in Delays : Tick(d)

\* One client connection, the admin surface beside it.
Next ==
  \/ \E s \in {"s1"} : SessionStep(s)
  \/ AdminStep

Spec == Init /\ [][Next]_vars

\* ------------------------------------------- concurrent clients, one project
\* Two connections of well-behaved clients of project p1 that send message
\* after message; the admin surface is idle.
BurstPayloads == {[form |-> "ok", username |-> KeyOf("p1"), password |-> PasswordOf("p1")]}

ClientStep(s) ==
  \/ handleHelo(s, TRUE, TRUE)
  \/ \E payload \in BurstPayloads : handleAuthPlain(s, payload, TRUE)
  \/ \E from \in FromAddrs : handleMail(s, TRUE, from, TRUE)
  \/ \E to \in ToAddrs : handleRcpt(s, TRUE, to, TRUE)
  \/ handleData(s, TRUE, TRUE)
  \/ EndOfData(s)
  \/ processEmailCheck(s, TRUE, TRUE)
  \/ processEmailAdmit(s, TRUE)
  \/ processEmailStore(s, TRUE, TRUE)
  \/ processEmailCommit(s, TRUE)

InitQuota ==
  /\ config = MainConfig
  /\ now = 0
  /\ quotaLog = NoCall
  /\ budget = [data |-> MaxBurst, auth |-> MaxAuth, admin |-> 0, ticks |-> 0, resend |-> 0,
               rcpt |-> MaxRcpt]
  /\ table = [p \in Projects |-> NewProjectRow(p)]
  /\ snapshot = LoadAll(EmptyMap, table, ListAllProjects(table))
  /\ admin = [pc |-> "idle", list |-> <<>>]
  /\ authAttempts = [ip \in {ClientIP(s) : s \in Sessions} |-> <<>>]
  /\ emailCounts = [p \in Projects |-> <<>>]
  /\ emails = <<>>
  /\ forwarding = {}
  /\ resend = NoResend
  /\ auditLogs = NoAudit
  /\ InitSessions

NextQuota == \E s \in Sessions : ClientStep(s)

SpecQuota == InitQuota /\ [][NextQuota]_vars

\* ------------------------------------------------ the rate limiter by itself
\* Any caller of the limiter: CheckEmailQuota with limits of its choice,
\* RecordEmailSent, and time passing between the calls.
CallCheckEmailQuota(p, quotaPerMinute, quotaDaily) ==
  /\ quotaLog' = [called |-> TRUE, counts |-> emailCounts[p], t |-> now,
                  quotaPerMinute |-> quotaPerMinute, quotaDaily |-> quotaDaily,
                  verdict |-> CheckEmailQuota(emailCounts[p], now, quotaPerMinute,
                                              quotaDaily)]
  /\ emailCounts' = [emailCounts EXCEPT ![p] = RecentEmails(@, now)]
  /\ UNCHANGED <<config, letThrough, sinceMail, auditLogs, now, budget, resend, table, snapshot, admin, authAttempts, emails,
                 forwarding, sessionVars, historyVars>>

CallRecordEmailSent(p) ==
  /\ budget.data > 0
  /\ budget' = [budget EXCEPT !.data = @ - 1]
  /\ emailCounts' = [emailCounts EXCEPT ![p] = RecordEmailSent(@, now)]
  /\ UNCHANGED <<config, letThrough, sinceMail, auditLogs, quotaLog, resend, now, table, snapshot, admin, authAttempts, emails,
                 forwarding, sessionVars, historyVars>>

InitLimiter ==
  /\ config = MainConfig
  /\ now = 0
  /\ quotaLog = NoCall
  /\ budget = [data |-> MaxCommits, auth |-> 0, admin |-> 0, ticks |-> MaxTicks, resend |-> 0,
               rcpt |-> MaxRcpt]
  /\ table = [p \in Projects |-> NewProjectRow(p)]
  /\ snapshot = LoadAll(EmptyMap, table, ListAllProjects(table))
  /\ admin = [pc |-> "idle", list |-> <<>>]
  /\ authAttempts = [ip \in {ClientIP(s) : s \in Sessions} |-> <<>>]
  /\ emailCounts = [p \in Projects |-> <<>>]
  /\ emails = <<>>
  /\ forwarding = {}
  /\ resend = NoResend
  /\ auditLogs = NoAudit
  /\ InitSessions

NextLimiter ==
  \/ \E q \in 1..MaxQuota, d \in 1..MaxQuota : CallCheckEmailQuota("p1", q, d)
  \/ CallRecordEmailSent("p1")
  \/ TickStep

SpecLimiter == InitLimiter /\ [][NextLimiter]_vars

\* ------------------------------------------- forwarding and operator resends
\* One well-behaved client whose accepted messages are forwarded in the
\* background while an operator asks for resends.
ResendStep ==
  \/ \E id \in 1..MaxForwarded, getOk \in BOOLEAN : resendEmailHandler(id, getOk)
  \/ \E id \in resend.checked, updateOk \in BOOLEAN : resendQueue(id, updateOk)
  \/ \E id \in resend.running, getOk \in BOOLEAN, up \in BOOLEAN, updateOk \in BOOLEAN :
       resendForward(id, getOk, up, updateOk)

InitForward ==
  /\ config = MainConfig
  /\ now = 0
  /\ quotaLog = NoCall
  /\ budget = [data |-> MaxForwarded, auth |-> 1, admin |-> 0, ticks |-> 0,
               resend |-> MaxResends,
               rcpt |-> MaxRcpt]
  /\ table = [p \in Projects |-> NewProjectRow(p)]
  /\ snapshot = LoadAll(EmptyMap, table, ListAllProjects(table))
  /\ admin = [pc |-> "idle", list |-> <<>>]
  /\ authAttempts = [ip \in {ClientIP(s) : s \in Sessions} |-> <<>>]
  /\ emailCounts = [p \in Projects |-> <<>>]
  /\ emails = <<>>
  /\ forwarding = {}
  /\ resend = NoResend
  /\ auditLogs = NoAudit
  /\ InitSessions

NextForward ==
  \/ ClientStep("s1")
  \/ ForwardStep
  \/ ResendStep

\* Goroutines that were started get to run.
SpecForward ==
  /\ InitForward
  /\ [][NextForward]_vars
  /\ WF_vars(ForwardStep)

\* ------------------------------------------------ servers configured for TLS
\* NewServer accepts any Config: a server with a TLS configuration, with and
\* without RequireTLS, and a server told to require TLS without having one.
TLSConfigs ==
  {[requireAuth |-> RequireAuth, requireTLS |-> r, tlsConfig |-> t] :
     r \in BOOLEAN, t \in BOOLEAN} \ {MainConfig}

InitTLS ==
  /\ config \in TLSConfigs
  /\ now = 0
  /\ quotaLog = NoCall
  /\ budget = [data |-> 1, auth |-> MaxAuth, admin |-> 0, ticks |-> 0, resend |-> 0,
               rcpt |-> MaxRcpt]
  /\ table = [p \in Projects |-> NewProjectRow(p)]
  /\ snapshot = LoadAll(EmptyMap, table, ListAllProjects(table))
  /\ admin = [pc |-> "idle", list |-> <<>>]
  /\ authAttempts = [ip \in {ClientIP(s) : s \in Sessions} |-> <<>>]
  /\ emailCounts = [p \in Projects |-> <<>>]
  /\ emails = <<>>
  /\ forwarding = {}
  /\ resend = NoResend
  /\ auditLogs = NoAudit
  /\ InitSessions

NextTLS == SessionStep("s1")

SpecTLS == InitTLS /\ [][NextTLS]_vars

\* -------------------------------------------- rows without a password hash
\* password_hash is a nullable column: the table main() finds may hold rows
\* whose hash is NULL, which ReloadProjects loads as the empty string.
HashColumns(p) == {GenerateFromPassword(ToLower(PasswordOf(p))), NoHash}

InitNullHash ==
  /\ config = MainConfig
  /\ now = 0
  /\ quotaLog = NoCall
  /\ budget = [data |-> 1, auth |-> MaxAuth, admin |-> 0, ticks |-> 0, resend |-> 0,
               rcpt |-> MaxRcpt]
  /\ \E hashes \in [Projects -> UNION {HashColumns(p) : p \in Projects}] :
       /\ \A p \in Projects : hashes[p] \in HashColumns(p)
       /\ table = [p \in Projects |-> [NewProjectRow(p) EXCEPT !.passwordHash = hashes[p]]]
  /\ snapshot = LoadAll(EmptyMap, table, ListAllProjects(table))
  /\ admin = [pc |-> "idle", list |-> <<>>]
  /\ authAttempts = [ip \in {ClientIP(s) : s \in Sessions} |-> <<>>]
  /\ emailCounts = [p \in Projects |-> <<>>]
  /\ emails = <<>>
  /\ forwarding = {}
  /\ resend = NoResend
  /\ auditLogs = NoAudit
  /\ InitSessions

NextNullHash == SessionStep("s1")

SpecNullHash == InitNullHash /\ [][NextNullHash]_vars

\* ------------------------------------------- one client, several recipients
\* One connection of a client that authenticates and sends messages to up to
\* MaxEnvelope recipients each, with RSET and HELO in between as it likes.
EnvelopeAddrs == {"b@y", "c@z"}

InitEnvelope ==
  /\ config = MainConfig
  /\ now = 0
  /\ quotaLog = NoCall
  /\ budget = [data |-> MaxEmails, auth |-> 1, admin |-> 0, ticks |-> 0, resend |-> 0,
               rcpt |-> MaxEnvelope]
  /\ table = [p \in Projects |-> NewProjectRow(p)]
  /\ snapshot = LoadAll(EmptyMap, table, ListAllProjects(table))
  /\ admin = [pc |-> "idle", list |-> <<>>]
  /\ authAttempts = [ip \in {ClientIP(s) : s \in Sessions} |-> <<>>]
  /\ emailCounts = [p \in Projects |-> <<>>]
  /\ emails = <<>>
  /\ forwarding = {}
  /\ resend = NoResend
  /\ auditLogs = NoAudit
  /\ InitSessions

NextEnvelope ==
  \/ handleHelo("s1", TRUE, TRUE)
  \/ \E payload \in BurstPayloads : handleAuthPlain("s1", payload, TRUE)
  \/ \E from \in FromAddrs : handleMail("s1", TRUE, from, TRUE)
  \/ \E to \in EnvelopeAddrs : handleRcpt("s1", TRUE, to, TRUE)
  \/ handleData("s1", TRUE, TRUE)
  \/ EndOfData("s1")
  \/ processEmailCheck("s1", TRUE, TRUE)
  \/ processEmailAdmit("s1", TRUE)
  \/ processEmailStore("s1", TRUE, TRUE)
  \/ processEmailCommit("s1", TRUE)
  \/ handleReset("s1", TRUE)

SpecEnvelope == InitEnvelope /\ [][NextEnvelope]_vars

\* ------------------------------------- concurrent AUTH from one address
\* CheckAuthAttempt statement by statement, as two connections from the same
\* address run it: the limiter has no lock, so their statements interleave.
\* The clients keep guessing a wrong password.
GuessPayloads == {[form |-> "ok", username |-> KeyOf("p1"), password |-> PasswordOf("p2")]}

\* now, cutoff, and the loop that collects the attempts newer than the cutoff.
CheckAuthAttemptCollect(s) ==
  /\ Reading(s)
  /\ ~AlreadyAuthenticated(s)
  /\ budget.auth > 0
  /\ budget' = [budget EXCEPT !.auth = @ - 1]
  /\ admit' = [admit EXCEPT ![s] =
                 [t |-> now, recent |-> Recent(authAttempts[ClientIP(s)], now - Minute)]]
  /\ pc' = [pc EXCEPT ![s] = "limit"]
  /\ UNCHANGED <<config, letThrough, sinceMail, auditLogs, tls, quotaLog, resend, now, table, snapshot,
                 admin, authAttempts, emailCounts, emails, forwarding, state, authenticated,
                 project, mailFrom, rcptTo, data, email, lastCmd, lastReply, accepted,
                 commits, got235, txStored>>

\* m.authAttempts[ip] = recentAttempts, then the comparison with the limit.
CheckAuthAttemptLimit(s, ioOk) ==
  /\ pc[s] = "limit"
  /\ authAttempts' = [authAttempts EXCEPT ![ClientIP(s)] = admit[s].recent]
  /\ IF Len(admit[s].recent) >= AuthAttemptLimit
       THEN /\ Respond(s, "AUTH", R421Auth, ioOk)
            /\ admit' = [admit EXCEPT ![s] = NoAdmit]
       ELSE /\ pc' = [pc EXCEPT ![s] = "record"]
            /\ UNCHANGED <<admit, lastCmd, lastReply>>
  /\ UNCHANGED <<config, letThrough, sinceMail, auditLogs, tls, quotaLog, resend, now, budget, table,
                 snapshot, admin, emailCounts, emails, forwarding, state, authenticated,
                 project, mailFrom, rcptTo, data, email, accepted, commits, got235,
                 txStored>>

\* m.authAttempts[ip] = append(m.authAttempts[ip], now); handleAuthPlain goes
\* on to validate the credentials, which are wrong.
CheckAuthAttemptRecord(s, payload, ioOk) ==
  /\ pc[s] = "record"
  /\ authAttempts' = [authAttempts EXCEPT ![ClientIP(s)] = Append(@, admit[s].t)]
  /\ letThrough' = [letThrough EXCEPT ![ClientIP(s)] = Append(@, admit[s].t)]
  /\ admit' = [admit EXCEPT ![s] = NoAdmit]
  /\ \E validated \in ValidateAPIKey(snapshot, payload.username, payload.password) :
       /\ AuthPlainResult(s, payload, validated).reply = R535
       /\ Respond(s, "AUTH", R535, ioOk)
  /\ UNCHANGED <<config, sinceMail, auditLogs, tls, quotaLog, resend, now, budget, table,
                 snapshot, admin, emailCounts, emails, forwarding, state, authenticated,
                 project, mailFrom, rcptTo, data, email, accepted, commits, got235,
                 txStored>>

InitGuess ==
  /\ config = MainConfig
  /\ now = 0
  /\ quotaLog = NoCall
  /\ budget = [data |-> 0, auth |-> MaxGuesses, admin |-> 0, ticks |-> 1, resend |-> 0,
               rcpt |-> MaxRcpt]
  /\ table = [p \in Projects |-> NewProjectRow(p)]
  /\ snapshot = LoadAll(EmptyMap, table, ListAllProjects(table))
  /\ admin = [pc |-> "idle", list |-> <<>>]
  /\ authAttempts = [ip \in {ClientIP(s) : s \in Sessions} |-> <<>>]
  /\ emailCounts = [p \in Projects |-> <<>>]
  /\ emails = <<>>
  /\ forwarding = {}
  /\ resend = NoResend
  /\ auditLogs = NoAudit
  /\ InitSessions

NextGuess ==
  \/ \E s \in Sessions : CheckAuthAttemptCollect(s)
  \/ \E s \in Sessions : CheckAuthAttemptLimit(s, TRUE)
  \/ \E s \in Sessions, payload \in GuessPayloads : CheckAuthAttemptRecord(s, payload, TRUE)
  \/ TickStep

SpecGuess == InitGuess /\ [][NextGuess]_vars

\* ============================================================= properties
\* What a session did in one step, read off a pair of states.
MailStep(s) == \E ok \in BOOLEAN, from \in FromAddrs, ioOk \in BOOLEAN : handleMail(s, ok, from, ioOk)
RcptStep(s) == \E ok \in BOOLEAN, to \in ToAddrs, ioOk \in BOOLEAN : handleRcpt(s, ok, to, ioOk)
DataStep(s, getOk) == \E ioOk \in BOOLEAN : handleData(s, getOk, ioOk)
AuthStep(s) == \E payload \in Payloads, ioOk \in BOOLEAN : handleAuthPlain(s, payload, ioOk)

RowsOf(p) == {i \in DOMAIN emails : emails[i].ProjectID = p}
AcceptedTotal == accepted["s1"] + accepted["s2"]

\* C1: with RequireAuth set, a session in which no AUTH PLAIN was answered 235
\* opens no envelope (MAIL is refused), reaches neither StoreEmail nor
\* RecordEmailSent, and is never answered "250 OK: Message accepted"; no row
\* exists unless some session was answered 235.
C1_NoRelayWithoutAuth ==
  /\ \A s \in Sessions :
       (\/ state[s] \in {"Mail", "Rcpt"}
        \/ pc[s] \in {"data", "admit", "admitted", "store", "commit"}
        \/ txStored[s]
        \/ commits[s] > 0
        \/ accepted[s] > 0) => got235[s]
  /\ emails # <<>> => \E s \in Sessions : got235[s]

C1_Witness ==
  \E s \in Sessions : got235[s] /\ accepted[s] > 0 /\ Len(emails) > 0

\* C2 (as the specification states it): however two sessions of one project
\* interleave, the messages accepted for the project inside one 60-second
\* window never exceed the per-minute limit their sessions hand to
\* CheckEmailQuota.  No time passes in SpecQuota, so every accepted message
\* lies in the window ending now.
C2_AdmitCommitSerialized ==
  \A s \in Sessions :
    project[s] # NoProject /\ project[s].ID = "p1"
      => AcceptedTotal <= SessionQuotaPerMinute(s)

\* C3: RecordEmailSent is reached only with the row of this DATA transaction
\* stored, and a project never has more quota entries than stored rows: a
\* failed StoreEmail leaves the counts as they were and commits nothing.
C3_CommitOnlyAfterStore ==
  /\ \A s \in Sessions : pc[s] = "commit" => txStored[s]
  /\ \A s \in Sessions : commits[s] <= Len(emails)
  /\ \A p \in Projects : Len(emailCounts[p]) <= Cardinality(RowsOf(p))

\* A DATA transaction whose StoreEmail failed: the message was built, the
\* session is back at the command loop, nothing was committed.
C3_Witness ==
  \E s \in Sessions :
    /\ email[s] # NoEmail /\ pc[s] = "cmd" /\ ~txStored[s]
    /\ lastCmd[s] = "DATA" /\ lastReply[s] = R550
    /\ commits[s] = 0 /\ emailCounts[project[s].ID] = <<>>

\* C4 (as the specification states it): when a session has ended, by QUIT or
\* by an I/O error, it made as many RecordEmailSent calls as it was sent
\* "250 OK: Message accepted" replies.
C4_CommitsEqualAccepted ==
  \A s \in Sessions : pc[s] = "closed" => commits[s] = accepted[s]

\* C5 (as the specification states it): once an admin request that made a
\* project's row inactive or deleted has returned, no AUTH PLAIN binds a
\* session to that project.
C5_NonActiveNeverAuthenticates ==
  [][\A s \in Sessions :
       (AuthStep(s) /\ ~authenticated[s] /\ authenticated'[s] /\ admin.pc = "idle")
         => GetProject(table, project'[s].ID).status = "active"]_vars

\* C6: a session that was answered 235 and whose project row is no longer
\* active when DATA arrives in sequence (the row being read successfully) is
\* answered "554 Transaction failed: Project not active"; 354 is not sent,
\* the body is not read, no row is stored and nothing is committed.
C6_InactiveRejectedAtData ==
  [][\A s \in Sessions :
       (/\ DataStep(s, TRUE)
        /\ got235[s] /\ DataInSequence(s)
        /\ GetProject(table, project[s].ID).status # "active")
         => /\ lastReply'[s] = R554
            /\ pc'[s] \in {"cmd", "closed"}
            /\ emails' = emails
            /\ emailCounts' = emailCounts
            /\ commits' = commits]_vars

C6_Witness ==
  \E s \in Sessions :
    /\ got235[s] /\ pc[s] = "cmd"
    /\ lastCmd[s] = "DATA" /\ lastReply[s] = R554
    /\ GetProject(table, project[s].ID).status # "active"
    /\ emails = <<>> /\ commits[s] = 0

\* C7 (as the specification states it): admission enforces the project's own
\* quota_per_minute of the project table, so a project never has more rows
\* inside one window than its configured limit (two for p1).
C7_ConfiguredQuotaEnforced ==
  \A p \in Projects : Cardinality(RowsOf(p)) <= GetProject(table, p).quotaPerMinute

\* C8: CheckEmailQuota admits exactly when fewer than perMinute entries of the
\* project are less than 60 seconds old and fewer than daily entries are less
\* than 24 hours old, both ages measured from the instant of the call.
TrailingCount(counts, t, window) ==
  Cardinality({i \in DOMAIN counts : t - counts[i] < window})

C8_AdmitIffUnderBothLimits ==
  quotaLog.called =>
    ((quotaLog.verdict = "ok") <=>
       (/\ TrailingCount(quotaLog.counts, quotaLog.t, Minute) < quotaLog.quotaPerMinute
        /\ TrailingCount(quotaLog.counts, quotaLog.t, Day) < quotaLog.quotaDaily))

\* The (N+1)-th attempt inside a window is refused while an older entry has
\* already slid out of it.
C8_Witness ==
  /\ quotaLog.called
  /\ quotaLog.verdict = "minute"
  /\ TrailingCount(quotaLog.counts, quotaLog.t, Minute) = quotaLog.quotaPerMinute
  /\ Len(quotaLog.counts) > quotaLog.quotaPerMinute

\* C9 (as the specification states it): MAIL, RCPT and DATA received by a
\* session that has not authenticated are each answered with code 530.
C9_Unauthenticated530 ==
  [][\A s \in Sessions :
       (~authenticated[s] /\ (MailStep(s) \/ RcptStep(s) \/ DataStep(s, TRUE)))
         => lastReply'[s].code = 530]_vars

\* C10 (as the specification states it): a DATA transaction whose StoreEmail
\* fails is answered with code 451 and adds no row.
C10_StoreFailure451 ==
  [][\A s \in Sessions :
       (pc[s] = "store" /\ pc'[s] \in {"cmd", "closed"})
         => lastReply'[s].code = 451 /\ emails' = emails]_vars

\* C11 (as the specification states it): a DATA transaction that
\* CheckEmailQuota refuses is answered with code 452, the session stays in
\* state Rcpt and no row is stored.
C11_QuotaRejection452 ==
  [][\A s \in Sessions :
       (pc[s] = "admitted" /\ pc'[s] \in {"cmd", "closed"})
         => /\ lastReply'[s].code = 452
            /\ state'[s] = "Rcpt"
            /\ emails' = emails]_vars

\* C12 (as the specification states it): whatever the forwarding goroutine
\* and resend requests do, a row that is 'delivered' keeps that status, and no
\* row goes from 'processed' to 'queued'.
C12_StatusMovesForward ==
  [][\A id \in DOMAIN emails :
       /\ emails[id].Status = "delivered" => emails'[id].Status = "delivered"
       /\ ~(emails[id].Status = "processed" /\ emails'[id].Status = "queued")]_vars

C14_EnvelopeUsedOnce ==
  [][\A s \in Sessions :
       (/\ pc[s] = "cmd" /\ lastCmd[s] = "DATA" /\ lastReply[s] = R250Accepted
        /\ (DataStep(s, TRUE) \/ RcptStep(s)))
         => state[s] = "Authenticated" /\ lastReply'[s].code = 503]_vars

C16_NoAuthBeforeTLS ==
  [][\A s \in Sessions :
       (config.requireTLS /\ ~tls[s] /\ AuthStep(s))
         => ~authenticated'[s] /\ lastReply'[s] # R235]_vars

\* C17 (as the specification states it): a session that received QUIT is in
\* state Quit, its connection is closed, and "221 Goodbye" is the last reply
\* written on it.
C17_QuitEndsWith221 ==
  \A s \in Sessions :
    lastCmd[s] = "QUIT" => state[s] = "Quit" /\ pc[s] = "closed" /\ lastReply[s] = R221

\* The reasons for which ValidateAPIKey can refuse a well-formed payload in
\* the current snapshot.
WellFormed == {payload \in Payloads : payload.form = "ok"}
Refused(payload) ==
  \A v \in ValidateAPIKey(snapshot, payload.username, payload.password) : ~v.ok
RefusalReasons ==
  {v.err : v \in UNION {ValidateAPIKey(snapshot, payload.username, payload.password) :
                          payload \in WellFormed}} \ {""}

\* C18: an AUTH PLAIN with a well-formed payload that ValidateAPIKey refuses,
\* for whichever reason (unknown key, wrong password, project not active), is
\* answered "535 Authentication failed" and leaves the session exactly as an
\* AUTH refused for any other of these reasons does: state, authenticated and
\* project are untouched.
C18_AuthFailuresAlike ==
  [][\A s \in Sessions :
       (pc[s] = "cmd" /\ lastCmd'[s] = "AUTH" /\ budget' # budget
        /\ ~AlreadyAuthenticated(s)
        /\ CheckAuthAttempt(authAttempts[ClientIP(s)], now).ok
        /\ \E payload \in WellFormed, ioOk \in BOOLEAN :
             Refused(payload) /\ handleAuthPlain(s, payload, ioOk))
         => /\ lastReply'[s] = R535
            /\ state'[s] = state[s]
            /\ authenticated'[s] = authenticated[s] /\ ~authenticated'[s]
            /\ project'[s] = project[s]
            /\ got235'[s] = got235[s]]_vars

\* A refused AUTH in a snapshot where all three reasons can occur.
C18_Witness ==
  \E s \in Sessions :
    /\ lastCmd[s] = "AUTH" /\ lastReply[s] = R535 /\ ~authenticated[s] /\ pc[s] = "cmd"
    /\ RefusalReasons = {"invalid API credentials", "invalid password",
                         "project is not active"}

\* Every spelling of a credential that differs from it in letter case only.
CaseVariants(str) == {Str(str.w, upper) : upper \in BOOLEAN}

Succeeds(m, username, password) == {v.ok : v \in ValidateAPIKey(m, username, password)}

\* C19: authentication does not depend on the letter case of the credentials:
\* against the credential snapshot, whose hashes are of lowercased passwords,
\* ValidateAPIKey succeeds for a (username, password) exactly when it succeeds
\* for any respelling of the two in another letter case.
C19_CaseInvariantAuth ==
  \A username \in Usernames, password \in Passwords :
    \A u2 \in CaseVariants(username), p2 \in CaseVariants(password) :
      Succeeds(snapshot, username, password) = Succeeds(snapshot, u2, p2)

C19_Witness ==
  /\ "p1" \in DOMAIN snapshot /\ snapshot["p1"].Status = "active"
  /\ snapshot["p1"].APIKeyHash = GenerateFromPassword(ToLower(Str("pw1", TRUE)))
  /\ Succeeds(snapshot, Str("mp_live_1", TRUE), Str("pw1", TRUE)) = {TRUE}
  /\ Succeeds(snapshot, Str("mp_live_1", FALSE), Str("pw1", FALSE)) = {TRUE}
  /\ Succeeds(snapshot, Str("mp_live_1", TRUE), Str("pw2", FALSE)) = {FALSE}
  /\ \E s \in Sessions : lastCmd[s] = "AUTH" /\ lastReply[s] = R235 /\ authenticated[s]

\* The connection of s was lost in the read loop of DATA.
AbandonedInData(s) == pc[s] = "closed" /\ lastCmd[s] = "DATA" /\ lastReply[s] = R500Err

\* C20: when a read fails during DATA accumulation, before the end-of-data
\* marker, the partial message is discarded: the session closes with no row
\* stored, no quota entry recorded and no forwarding started, then and ever
\* after; only a complete body is ever handed to processEmail.
C20_AbandonedDataDiscarded ==
  [][\A s \in Sessions :
       /\ (pc[s] = "data" /\ pc'[s] # "data")
            => \/ pc'[s] = "admit" /\ data'[s] = "body"
               \/ /\ AbandonedInData(s)'
                  /\ data'[s] = data[s] /\ email'[s] = email[s]
                  /\ emails' = emails /\ emailCounts' = emailCounts
                  /\ commits' = commits /\ forwarding' = forwarding
                  /\ accepted' = accepted /\ txStored' = txStored
       /\ AbandonedInData(s)
            => /\ AbandonedInData(s)'
               /\ emails' = emails /\ commits' = commits /\ forwarding' = forwarding
               /\ emailCounts'[project[s].ID] = emailCounts[project[s].ID]]_vars

C20_Witness ==
  \E s \in Sessions :
    /\ AbandonedInData(s) /\ ~txStored[s]
    /\ accepted[s] = 1 /\ commits[s] = 1 /\ Len(emails) = 1 /\ forwarding = {1}

\* C21: RSET, in whatever state the session is, clears the envelope sender, the
\* recipient list and the body, sets the state to Helo and answers 250; the
\* authenticated flag, the bound project, the stored messages, the quota
\* entries and everything outside the session stay as they were.
C21_ResetClearsEnvelopeOnly ==
  [][\A s \in Sessions :
       (pc[s] = "cmd" /\ lastCmd'[s] = "RSET" /\ \E ioOk \in BOOLEAN : handleReset(s, ioOk))
         => /\ mailFrom'[s] = "" /\ rcptTo'[s] = <<>> /\ data'[s] = ""
            /\ state'[s] = "Helo" /\ lastReply'[s] = R250
            /\ authenticated' = authenticated /\ project' = project
            /\ emails' = emails /\ emailCounts' = emailCounts
            /\ commits' = commits /\ accepted' = accepted /\ forwarding' = forwarding
            /\ UNCHANGED <<table, snapshot, authAttempts, tls, email, admit, got235>>]_vars

C21_Witness ==
  \E s \in Sessions :
    /\ lastCmd[s] = "RSET" /\ lastReply[s] = R250 /\ pc[s] = "cmd"
    /\ state[s] = "Helo" /\ mailFrom[s] = "" /\ rcptTo[s] = <<>> /\ data[s] = ""
    /\ authenticated[s] /\ project[s] # NoProject
    /\ accepted[s] = 1 /\ commits[s] = 1 /\ Len(emails) = 1

\* An AUTH command of session s, with PLAIN or with another mechanism.
AnyAuthStep(s) ==
  \/ \E payload \in Payloads, ioOk \in BOOLEAN : handleAuthPlain(s, payload, ioOk)
  \/ \E m \in {"", "LOGIN", "CRAM-MD5"}, ioOk \in BOOLEAN : handleAuthOther(s, m, ioOk)

\* C22: once a session has authenticated it stays bound to the same project:
\* no step changes its authenticated flag or its project, and every later AUTH,
\* whatever it carries, is answered 503 and changes nothing, neither in the
\* session nor in the attempts recorded for its address.
C22_AuthAfterAuth503 ==
  [][\A s \in Sessions :
       /\ authenticated[s] => authenticated'[s] /\ project'[s] = project[s]
       /\ (pc[s] = "cmd" /\ authenticated[s] /\ lastCmd'[s] = "AUTH" /\ AnyAuthStep(s))
            => /\ lastReply'[s] = R503Auth
               /\ state' = state /\ got235' = got235 /\ authAttempts' = authAttempts
               /\ mailFrom' = mailFrom /\ rcptTo' = rcptTo /\ data' = data]_vars

C22_Witness ==
  \E s \in Sessions :
    /\ lastCmd[s] = "AUTH" /\ lastReply[s] = R503Auth /\ pc[s] = "cmd"
    /\ authenticated[s] /\ got235[s] /\ project[s] # NoProject
    /\ "p1" \in DOMAIN snapshot /\ snapshot["p1"].Status # "active"

RECURSIVE SumOver(_, _)
SumOver(f, keys) ==
  IF keys = {} THEN 0
  ELSE LET k == CHOOSE x \in keys : TRUE IN f[k] + SumOver(f, keys \ {k})

\* The number of audit events emitted so far.
AuditTotal == SumOver(auditLogs, AuditActions)

\* AUTH PLAIN of s got past the per-address check to be processed.
AuthAttemptProcessed(s) ==
  pc[s] = "cmd" /\ lastCmd'[s] = "AUTH" /\ budget'.auth < budget.auth
  /\ lastReply'[s] # R421Auth

\* CheckEmailQuota refused the message of s.
QuotaRejected(s) == pc[s] = "admitted" /\ lastReply'[s] = R550 /\ pc'[s] \in {"cmd", "closed"}

\* C23: every AUTH PLAIN attempt a session processes, successful or not, and
\* every quota rejection emits one audit event.
C23_AuditMirrorsAuthAndQuota ==
  [][\A s \in Sessions :
       (AuthAttemptProcessed(s) \/ QuotaRejected(s)) => AuditTotal' = AuditTotal + 1]_vars

\* The credentials of project p as its owner sends them.
OwnPayload(p) == [form |-> "ok", username |-> KeyOf(p), password |-> PasswordOf(p)]

\* The only admin operation so far is an update that left project p active, as
\* it was before: p is active before and after the reload that update runs.
ActiveAcrossReload(p) ==
  /\ auditLogs["project_updated"] = 1 /\ AuditTotal = 1
  /\ table[p].status = "active"

\* C24: a reload publishes the new snapshot in one step, so an AUTH PLAIN with
\* the right credentials of a project that is active before and after the
\* reload is answered 235 whenever it runs.
C24_ReloadAtomic ==
  [][\A s \in Sessions :
       (AuthAttemptProcessed(s) /\ ActiveAcrossReload("p1")
        /\ \E ioOk \in BOOLEAN : handleAuthPlain(s, OwnPayload("p1"), ioOk))
         => lastReply'[s] = R235]_vars

\* The row a store step of session s added.
StoredBy(s) == pc[s] = "store" /\ Len(emails') = Len(emails) + 1

\* C25: the recipients of every stored message are exactly the RCPT TO
\* addresses accepted since the most recent MAIL FROM, in order; those of an
\* earlier transaction never appear in a later message.
C25_RecipientsOfThisTransaction ==
  [][\A s \in Sessions : StoredBy(s) => emails'[Len(emails')].To = sinceMail[s]]_vars

\* C26: the recipient list round-trips through the message store: for every
\* stored message, GetEmail returns the To list it was stored with, element for
\* element, so a resend goes to the original recipients.
C26_RecipientsRoundTrip ==
  \A id \in DOMAIN emails : GetEmail(emails, id).To = emails[id].To

\* A write reached row id in this step: UpdateEmailStatus is the only writer of
\* a stored row, called by the forwarding goroutine and by a resend.
StatusUpdated(id) ==
  /\ emails'[id] # emails[id]
  /\ \/ id \in forwarding /\ id \notin forwarding'
     \/ id \in resend.checked /\ id \notin resend'.checked
     \/ id \in resend.running /\ id \notin resend'.running

\* C27: a message is stored with attempts = 1, and every status update applied
\* to it, by the forwarding goroutine or by a resend, adds exactly one; nothing
\* else changes the counter.
C27_AttemptsCountUpdates ==
  [][/\ \A id \in DOMAIN emails' \ DOMAIN emails : emails'[id].Attempts = 1
     /\ \A id \in DOMAIN emails :
          /\ id \in DOMAIN emails'
          /\ emails'[id].Attempts =
               emails[id].Attempts + (IF StatusUpdated(id) THEN 1 ELSE 0)]_vars

C27_Witness ==
  \E id \in DOMAIN emails :
    /\ emails[id].Attempts = 4 /\ emails[id].Status = "delivered"
    /\ id \notin forwarding /\ id \notin resend.checked /\ id \notin resend.running
    /\ auditLogs["email_resend_requested"] = 1

\* C28: per client address, at most AuthAttemptLimit AUTH PLAIN attempts are
\* let through to credential validation within any trailing minute, however
\* many connections the address has open.
C28_AuthAttemptsLimitedPerIP ==
  \A s \in Sessions :
    Len(Recent(letThrough[ClientIP(s)], now - Minute)) <= AuthAttemptLimit

\* C29: an AUTH PLAIN is answered 235 only when the password it carries,
\* lowercased, matches the hash stored for the project it is bound to; a
\* project loaded without a hash is no exception.
C29_PasswordAlwaysChecked ==
  [][\A s \in Sessions :
       (AuthAttemptProcessed(s) /\ lastReply'[s] = R235)
         => \A payload \in WellFormed, ioOk \in BOOLEAN :
              handleAuthPlain(s, payload, ioOk)
                => CompareHashAndPassword(project'[s].APIKeyHash, ToLower(payload.password))]_vars

\* C30: with RequireAuth set, a session whose state is Mail or Rcpt is
\* authenticated and has a project bound; a session becomes authenticated only
\* with a project found active in the credential snapshot at that moment; so
\* handleData and processEmail never meet a nil project.
C30_EnvelopeImpliesProject ==
  /\ [](\A s \in Sessions :
          /\ state[s] \in {"Mail", "Rcpt"} => authenticated[s]
          /\ authenticated[s] => project[s] # NoProject
          /\ pc[s] # "panic")
  /\ [][\A s \in Sessions :
          (~authenticated[s] /\ authenticated'[s])
            => \E p \in DOMAIN snapshot :
                 snapshot[p].Status = "active" /\ project'[s] = snapshot[p]]_vars

C30_Witness ==
  \E s \in Sessions :
    /\ config.requireAuth /\ state[s] = "Rcpt" /\ pc[s] = "commit"
    /\ authenticated[s] /\ project[s] # NoProject
    /\ project[s].ID \in DOMAIN snapshot /\ snapshot[project[s].ID].Status # "active"

====
